---- MODULE Spec2Model ----
(***************************************************************************)
(* State-machine model of the screenshot annotator (src/gui.py): the       *)
(* ClickableLabel pointer events and the MainWindow handlers of the        *)
(* two-stage annotation flow, with the capture device, the clock and the   *)
(* file system as environment inputs; and of the upload endpoint of the    *)
(* separate upload server (src/server.py).                                 *)
(*                                                                         *)
(* Conventions.                                                            *)
(*  - An Optional value is a sequence: <<>> is None, <<v>> is the value v. *)
(*  - A normalised coordinate (a float rounded to 6 decimals) is the       *)
(*    integer number of millionths, so 0.05 is 50000 and 1.0 is 1000000.   *)
(*  - A QPixmap is the pair <<width, height>> of its pixel dimensions.     *)
(*  - A text is a sequence of one-character strings.                       *)
(*  - Widget enabled flags are not modelled: every handler can be invoked  *)
(*    in every state and decides by its own guards.                        *)
(***************************************************************************)
EXTENDS Integers, Sequences, FiniteSets, TLC

VARIABLES
    label_dragging,          \* ClickableLabel._dragging
    original_pixmap,         \* Optional <<w, h>>: full-resolution image
    base_pixmap,             \* Optional <<w, h>>: displayed image (image_label.pixmap() has the same size)
    current_scale,           \* <<num, den>>: the float current_scale as a reduced fraction
    current_img_bytes,       \* Optional bytes of the last capture
    current_screenshot_path, \* Optional file name of the persisted screenshot
    stage,
    rectangle_points,
    pending_points,
    center_point,            \* Optional point
    undo_stack,
    redo_stack,
    drag_index,              \* Optional 0-based index (_drag_index)
    desc_input,              \* text of the description box
    last_description,
    last_saved_screenshot,   \* Optional file name
    image_files,             \* IMAGES_DIR: set of [name, bytes]
    rect_dir_images,         \* RECTANGLES_DIR: copies of the screenshot
    point_dir_images,        \* POINTS_DIR: copies of the screenshot
    rect_log,                \* entries of rectangles/annotations.json
    point_log,               \* entries of points/annotations.json
    now,                     \* int(time.time())
    dialog,                  \* message boxes shown by the last event, in order
    image_written,           \* the last event wrote a screenshot file into IMAGES_DIR
    crashed,                 \* the last event raised an uncaught exception
    lastOp,                  \* name of the last event
    pushes,                  \* snapshots recorded since the last reset (bounds the exploration)
    zooms,                   \* effective zoom requests since the last capture (bounds the exploration)
    uploads,                 \* server UPLOADS_DIR: set of stored file names
    http_request,            \* Optional [image, annotations, center_points]: file names of the last upload
    http_status              \* status code of the response to the last upload (0 before the first)

vars == <<label_dragging, original_pixmap, base_pixmap, current_scale,
          current_img_bytes, current_screenshot_path, stage, rectangle_points,
          pending_points, center_point, undo_stack, redo_stack, drag_index,
          desc_input, last_description, last_saved_screenshot, image_files,
          rect_dir_images, point_dir_images, rect_log, point_log,
          now, dialog, image_written, crashed, lastOp, pushes, zooms,
          uploads, http_request, http_status>>

(***************************************************************************)
(* Bounds of the exploration.                                              *)
(***************************************************************************)
MaxPushes == 4      \* Spec, SpecResave: snapshots recorded between two resets of the draft
MaxEdits == 6       \* SpecEdit: snapshots recorded and corners moved between two resets
MaxSavePushes == 5  \* SpecSave, SpecHit: snapshots recorded between two resets of the draft
MaxSaves == 1       \* entries added to an annotation log; the run ends when one is full
MaxTime == 2        \* clock values 1..MaxTime
MaxDeepPushes == 21 \* SpecHistory: snapshots recorded between two resets of the draft
MaxZooms == 1       \* effective zoom requests per capture
MaxSide == 12       \* SpecRoundTrip: captures of 1..MaxSide x 1..MaxSide pixels
MaxStamps == 2      \* SpecServer: distinct readings of the server clock

(***************************************************************************)
(* Program constants.                                                      *)
(***************************************************************************)
STAGE_RECTANGLE == 0
STAGE_POINT == 1
UNDO_LIMIT == 20
HIT_THRESHOLD == 8
MILLION == 1000000

None == <<>>
Some(v) == <<v>>
Get(o) == o[1]

(***************************************************************************)
(* Inputs.                                                                 *)
(***************************************************************************)
\* What AdbTools.take_screenshot returns: bytes that decode to a w x h image,
\* or bytes QImage.fromData cannot decode (a null pixmap, w = 0).
Images == { [bytes |-> "imgA", w |-> 30, h |-> 30],
            [bytes |-> "junk", w |-> 0,  h |-> 0] }
\* int(screen_geom.height() * 0.8): 80 % of the available screen height; a
\* 30 x 30 capture is shown as 24 x 24, at scale 4/5.
ScreenHeights == { 24 }
\* Pointer positions of mouse presses; <<60, 5>> lies outside the image.
ClickPos == { <<2, 3>>, <<60, 5>> }
EditClickPos == { <<2, 3>>, <<20, 21>>, <<60, 5>> }
PointClickPos == { <<20, 21>> }
\* Pointer positions of mouse moves; <<-3, 40>> is clamped by the drag handler.
DragPos == { <<-3, 40>> }
\* Texts the user can type into the description box.
Texts == { <<>>, <<" ">>, <<" ", "d">> }
ZoomFactors == { <<5, 4>>, <<4, 5>> }

(***************************************************************************)
(* Pure helpers.                                                           *)
(***************************************************************************)
Min(a, b) == IF a < b THEN a ELSE b
Max(a, b) == IF a > b THEN a ELSE b
Abs(a) == IF a < 0 THEN -a ELSE a

\* num / den rounded to the nearest integer, ties to even (num >= 0, den > 0).
RoundDiv(num, den) ==
    LET q == num \div den
        r == num % den
    IN  IF 2 * r < den THEN q
        ELSE IF 2 * r > den THEN q + 1
        ELSE IF q % 2 = 0 THEN q ELSE q + 1

\* round(num / den, 6) in millionths.  For the pixel sizes used here no
\* quotient lies halfway between two millionths.
Round6(num, den) == RoundDiv(num * MILLION, den)

\* The mean truncated to six decimals (the fault C21's statement is sensitive
\* to).
CentroidAxis_truncated(sum) == { sum \div 4 }

\* The mean rounded to one decimal (the fault C19's statement is sensitive to).
CentroidAxis_one_decimal(sum) == { RoundDiv(sum, 4 * 100000) * 100000 }

\* round(sum / 4, 6) in millionths, where sum is the float sum of four
\* coordinates: when the exact mean lies halfway between two millionths the
\* representation error of the float sum decides, so both neighbours are
\* possible results.
CentroidAxis(sum) ==
    IF sum % 4 = 2 THEN { sum \div 4, sum \div 4 + 1 } ELSE { RoundDiv(sum, 4) }

\* int(norm * size): a normalised coordinate back to a pixel, truncating
\* (equal to the float computation for the pixel sizes used here).
Denorm(norm, size) == (norm * size) \div MILLION

\* str.strip() on a text whose only whitespace character is the blank.
RECURSIVE LStrip(_)
LStrip(s) == IF s # <<>> /\ Head(s) = " " THEN LStrip(Tail(s)) ELSE s
RECURSIVE RStrip(_)
RStrip(s) == IF s # <<>> /\ s[Len(s)] = " " THEN RStrip(SubSeq(s, 1, Len(s) - 1)) ELSE s

\* A strip that removes nothing (the fault C13's statement is sensitive to).
Strip_keeping_blanks(s) == s

Strip(s) == RStrip(LStrip(s))

RECURSIVE SumAxis(_, _)
SumAxis(pts, axis) == IF pts = <<>> THEN 0 ELSE pts[1][axis] + SumAxis(Tail(pts), axis)

\* f"screenshot_{timestamp}.png"
ScreenshotName(timestamp) == <<"screenshot_", timestamp, ".png">>

TypeOK ==
    /\ label_dragging \in BOOLEAN
    /\ stage \in {STAGE_RECTANGLE, STAGE_POINT}
    /\ Len(center_point) <= 1
    /\ Len(drag_index) <= 1
    /\ now \in 1..MaxTime

Init ==
    /\ label_dragging = FALSE
    /\ original_pixmap = None
    /\ base_pixmap = None
    /\ current_scale = <<1, 1>>
    /\ current_img_bytes = None
    /\ current_screenshot_path = None
    /\ stage = STAGE_RECTANGLE
    /\ rectangle_points = <<>>
    /\ pending_points = <<>>
    /\ center_point = None
    /\ undo_stack = <<>>
    /\ redo_stack = <<>>
    /\ drag_index = None
    /\ desc_input = <<>>
    /\ last_description = <<>>
    /\ last_saved_screenshot = None
    /\ image_files = {}
    /\ rect_dir_images = {}
    /\ point_dir_images = {}
    /\ rect_log = <<>>
    /\ point_log = <<>>
    /\ now = 1
    /\ dialog = <<>>
    /\ image_written = FALSE
    /\ crashed = FALSE
    /\ lastOp = "init"
    /\ pushes = 0
    /\ zooms = 0
    /\ uploads = {}
    /\ http_request = None
    /\ http_status = 0

(***************************************************************************)
(* Variable groups.                                                        *)
(***************************************************************************)
pixVars == <<original_pixmap, base_pixmap, current_scale>>
shotVars == <<current_img_bytes, current_screenshot_path>>
draftVars == <<stage, rectangle_points, pending_points, center_point, desc_input>>
histVars == <<undo_stack, redo_stack>>
memoVars == <<last_description, last_saved_screenshot>>
storeVars == <<image_files, rect_dir_images, point_dir_images, rect_log, point_log>>
serverVars == <<uploads, http_request, http_status>>
guiVars == <<label_dragging, pixVars, shotVars, draftVars, histVars, drag_index,
             memoVars, storeVars, now, dialog, image_written, crashed, lastOp,
             pushes, zooms>>

\* Every event starts with no message box shown and no exception raised; only
\* a save writes screenshot files.
Event(name) == /\ ~crashed
               /\ lastOp' = name
               /\ IF name = "save" THEN TRUE ELSE image_written' = FALSE

Quiet == dialog' = <<>> /\ crashed' = FALSE

(***************************************************************************)
(* Fractions (the float current_scale).                                    *)
(***************************************************************************)
RECURSIVE GCD(_, _)
GCD(a, b) == IF b = 0 THEN a ELSE GCD(b, a % b)
Frac(n, d) == LET g == GCD(n, d) IN <<n \div g, d \div g>>
FracMul(a, b) == Frac(a[1] * b[1], a[2] * b[2])
FracLess(a, b) == a[1] * b[2] < b[1] * a[2]
FracAbsDiff(a, b) == Frac(Abs(a[1] * b[2] - b[1] * a[2]), a[2] * b[2])
\* int(size * scale)
FracTimesInt(size, f) == (size * f[1]) \div f[2]

(***************************************************************************)
(* MainWindow helpers.                                                     *)
(***************************************************************************)
\* A hit test satisfied by one axis alone (the fault C26's statement is
\* sensitive to).
get_nearest_point_index_either_axis(pos) ==
    IF base_pixmap = None THEN None
    ELSE LET width == Get(base_pixmap)[1]
             height == Get(base_pixmap)[2]
             hits == { i \in 1..Len(pending_points) :
                         \/ Abs(Denorm(pending_points[i][1], width) - pos[1]) <= HIT_THRESHOLD
                         \/ Abs(Denorm(pending_points[i][2], height) - pos[2]) <= HIT_THRESHOLD }
         IN  IF hits = {} THEN None
             ELSE Some((CHOOSE i \in hits : \A j \in hits : i <= j) - 1)

\* _get_nearest_point_index: Optional 0-based index of the first pending point
\* whose truncated pixel position is within the threshold on both axes.
get_nearest_point_index(pos) ==
    IF base_pixmap = None THEN None
    ELSE LET width == Get(base_pixmap)[1]
             height == Get(base_pixmap)[2]
             hits == { i \in 1..Len(pending_points) :
                         /\ Abs(Denorm(pending_points[i][1], width) - pos[1]) <= HIT_THRESHOLD
                         /\ Abs(Denorm(pending_points[i][2], height) - pos[2]) <= HIT_THRESHOLD }
         IN  IF hits = {} THEN None
             ELSE Some((CHOOSE i \in hits : \A j \in hits : i <= j) - 1)

\* _record_state_for_undo recording the pending points twice (the fault C23's
\* statement is sensitive to).
record_state_for_undo_twice ==
    IF stage # STAGE_RECTANGLE THEN undo_stack
    ELSE Append(Append(undo_stack, pending_points), pending_points)

\* _record_state_for_undo: the undo stack after recording the pending points.
record_state_for_undo ==
    IF stage # STAGE_RECTANGLE THEN undo_stack
    ELSE LET pushed == Append(undo_stack, pending_points)
         IN  IF Len(pushed) > UNDO_LIMIT THEN Tail(pushed) ELSE pushed

\* _fully_reset_annotation_state (desc_input.clear() included).
\* _fully_reset_annotation_state without its desc_input.clear(): the text box
\* keeps its content (the fault C5's statement is sensitive to).
fully_reset_annotation_state_keeping_description ==
    /\ stage' = STAGE_RECTANGLE
    /\ rectangle_points' = <<>>
    /\ pending_points' = <<>>
    /\ center_point' = None
    /\ undo_stack' = <<>>
    /\ redo_stack' = <<>>
    /\ desc_input' = desc_input

\* _fully_reset_annotation_state without center_point = None (the fault C24's
\* statement is sensitive to).
fully_reset_annotation_state_keeping_center ==
    /\ stage' = STAGE_RECTANGLE
    /\ rectangle_points' = <<>>
    /\ pending_points' = <<>>
    /\ center_point' = center_point
    /\ undo_stack' = <<>>
    /\ redo_stack' = <<>>
    /\ desc_input' = <<>>

fully_reset_annotation_state ==
    /\ stage' = STAGE_RECTANGLE
    /\ rectangle_points' = <<>>
    /\ pending_points' = <<>>
    /\ center_point' = None
    /\ undo_stack' = <<>>
    /\ redo_stack' = <<>>
    /\ desc_input' = <<>>

\* QPixmap.scaledToHeight(max_height): the width follows the aspect ratio.
ScaledToHeight(pm, max_height) ==
    <<Max(1, (2 * pm[1] * max_height + pm[2]) \div (2 * pm[2])), max_height>>

\* QPixmap.scaled(w, h, Qt.KeepAspectRatio): the largest size of pm's aspect
\* ratio inside w x h (QSize::scaled).
ScaledKeepAspect(pm, w, h) ==
    LET rw == (h * pm[1]) \div pm[2]
    IN  IF rw <= w THEN <<rw, h>> ELSE <<w, (w * pm[2]) \div pm[1]>>

(***************************************************************************)
(* Screenshot handling.                                                    *)
(***************************************************************************)
\* handle_take_screenshot: deviceOk is whether adb_tools.take_screenshot()
\* returned, img what it returned, max_height 80 % of the screen height.
handle_take_screenshot(deviceOk, img, max_height) ==
    /\ Event("capture")
    /\ crashed' = FALSE
    /\ IF ~deviceOk
       THEN /\ dialog' = <<"Failed to take screenshot">>
            /\ UNCHANGED <<pixVars, shotVars, draftVars, histVars>>
       ELSE /\ current_img_bytes' = Some(img.bytes)
            /\ current_screenshot_path' = None
            /\ IF img.w = 0
               THEN /\ dialog' = <<"Failed to load screenshot into GUI.">>
                    /\ UNCHANGED <<pixVars, draftVars, histVars>>
               ELSE LET pixmap_full == <<img.w, img.h>>
                        scaled_pixmap == IF img.h > max_height
                                         THEN ScaledToHeight(pixmap_full, max_height)
                                         ELSE pixmap_full
                    IN  /\ dialog' = <<>>
                        /\ original_pixmap' = Some(pixmap_full)
                        /\ base_pixmap' = Some(scaled_pixmap)
                        /\ current_scale' = Frac(scaled_pixmap[1], Max(1, pixmap_full[1]))
                        /\ fully_reset_annotation_state
    /\ UNCHANGED <<label_dragging, drag_index, memoVars, storeVars, now>>

(***************************************************************************)
(* Stage transitions.                                                      *)
(***************************************************************************)
\* handle_next_stage without the len(pending_points) != 4 test (the fault C2's
\* statement is sensitive to).
handle_next_stage_any_count ==
    /\ Event("next")
    /\ Quiet
    /\ IF stage # STAGE_RECTANGLE
       THEN UNCHANGED <<stage, rectangle_points, pending_points, center_point>>
       ELSE /\ rectangle_points' = pending_points
            /\ \E cx \in CentroidAxis(SumAxis(pending_points, 1)),
                  cy \in CentroidAxis(SumAxis(pending_points, 2)) :
                   center_point' = Some(<<cx, cy>>)
            /\ pending_points' = <<>>
            /\ stage' = STAGE_POINT
    /\ UNCHANGED <<label_dragging, pixVars, shotVars, desc_input, histVars,
                   drag_index, memoVars, storeVars, now>>

handle_next_stage ==
    /\ Event("next")
    /\ Quiet
    /\ IF stage # STAGE_RECTANGLE \/ Len(pending_points) # 4
       THEN UNCHANGED <<stage, rectangle_points, pending_points, center_point>>
       ELSE /\ rectangle_points' = pending_points
            /\ \E cx \in CentroidAxis(SumAxis(pending_points, 1)),
                  cy \in CentroidAxis(SumAxis(pending_points, 2)) :
                   center_point' = Some(<<cx, cy>>)
            /\ pending_points' = <<>>
            /\ stage' = STAGE_POINT
    /\ UNCHANGED <<label_dragging, pixVars, shotVars, desc_input, histVars,
                   drag_index, memoVars, storeVars, now>>

\* A Back that keeps the center point (the fault C22's statement is sensitive
\* to).
handle_back_stage_keeping_center ==
    /\ Event("back")
    /\ Quiet
    /\ IF stage # STAGE_POINT
       THEN UNCHANGED <<stage, pending_points, center_point>>
       ELSE /\ pending_points' = rectangle_points
            /\ stage' = STAGE_RECTANGLE
            /\ center_point' = center_point
    /\ UNCHANGED <<label_dragging, pixVars, shotVars, rectangle_points, desc_input,
                   histVars, drag_index, memoVars, storeVars, now>>

handle_back_stage ==
    /\ Event("back")
    /\ Quiet
    /\ IF stage # STAGE_POINT
       THEN UNCHANGED <<stage, pending_points, center_point>>
       ELSE /\ pending_points' = rectangle_points
            /\ stage' = STAGE_RECTANGLE
            /\ center_point' = None
    /\ UNCHANGED <<label_dragging, pixVars, shotVars, rectangle_points, desc_input,
                   histVars, drag_index, memoVars, storeVars, now>>

(***************************************************************************)
(* Image interaction handlers.                                             *)
(***************************************************************************)
\* Whether pos lies on the displayed image (the check of handle_image_click).
InsideImage(pos) ==
    /\ base_pixmap # None
    /\ 0 <= pos[1] /\ pos[1] < Get(base_pixmap)[1]
    /\ 0 <= pos[2] /\ pos[2] < Get(base_pixmap)[2]

\* handle_image_click without the len(pending_points) >= 4 rejection (the
\* fault C1's statement is sensitive to).
handle_image_click_unbounded(pos) ==
    IF original_pixmap = None \/ base_pixmap = None
    THEN UNCHANGED <<pending_points, center_point, histVars, drag_index>>
    ELSE
    LET pix_w == Get(base_pixmap)[1]
        pix_h == Get(base_pixmap)[2]
        idx == get_nearest_point_index(pos)
    IN  IF ~InsideImage(pos)
        THEN UNCHANGED <<pending_points, center_point, histVars, drag_index>>
        ELSE IF stage = STAGE_RECTANGLE
        THEN IF Len(pending_points) = 4 /\ idx # None
             THEN /\ drag_index' = idx
                  /\ undo_stack' = record_state_for_undo
                  /\ UNCHANGED <<pending_points, center_point, redo_stack>>
             ELSE /\ undo_stack' = record_state_for_undo
                  /\ pending_points' = Append(pending_points,
                                              <<Round6(pos[1], pix_w), Round6(pos[2], pix_h)>>)
                  /\ redo_stack' = <<>>
                  /\ UNCHANGED <<center_point, drag_index>>
        ELSE /\ center_point' = Some(<<Round6(pos[1], pix_w), Round6(pos[2], pix_h)>>)
             /\ UNCHANGED <<pending_points, histVars, drag_index>>

\* handle_image_click dividing x by the height and y by the width (the fault
\* C20's statement is sensitive to).
handle_image_click_transposed(pos) ==
    IF original_pixmap = None \/ base_pixmap = None
    THEN UNCHANGED <<pending_points, center_point, histVars, drag_index>>
    ELSE
    LET pix_w == Get(base_pixmap)[1]
        pix_h == Get(base_pixmap)[2]
        idx == get_nearest_point_index(pos)
    IN  IF ~InsideImage(pos)
        THEN UNCHANGED <<pending_points, center_point, histVars, drag_index>>
        ELSE IF stage = STAGE_RECTANGLE
        THEN IF Len(pending_points) = 4 /\ idx # None
             THEN /\ drag_index' = idx
                  /\ undo_stack' = record_state_for_undo
                  /\ UNCHANGED <<pending_points, center_point, redo_stack>>
             ELSE IF Len(pending_points) >= 4
             THEN UNCHANGED <<pending_points, center_point, histVars, drag_index>>
             ELSE /\ undo_stack' = record_state_for_undo
                  /\ pending_points' = Append(pending_points,
                                              <<Round6(pos[1], pix_h), Round6(pos[2], pix_w)>>)
                  /\ redo_stack' = <<>>
                  /\ UNCHANGED <<center_point, drag_index>>
        ELSE /\ center_point' = Some(<<Round6(pos[1], pix_w), Round6(pos[2], pix_h)>>)
             /\ UNCHANGED <<pending_points, histVars, drag_index>>

\* handle_image_click: a press at pos on the displayed pixmap.
handle_image_click(pos) ==
    IF original_pixmap = None \/ base_pixmap = None
    THEN UNCHANGED <<pending_points, center_point, histVars, drag_index>>
    ELSE
    LET pix_w == Get(base_pixmap)[1]
        pix_h == Get(base_pixmap)[2]
        idx == get_nearest_point_index(pos)
    IN  IF ~InsideImage(pos)
        THEN UNCHANGED <<pending_points, center_point, histVars, drag_index>>
        ELSE IF stage = STAGE_RECTANGLE
        THEN IF Len(pending_points) = 4 /\ idx # None
             THEN /\ drag_index' = idx
                  /\ undo_stack' = record_state_for_undo
                  /\ UNCHANGED <<pending_points, center_point, redo_stack>>
             ELSE IF Len(pending_points) >= 4
             THEN UNCHANGED <<pending_points, center_point, histVars, drag_index>>
             ELSE /\ undo_stack' = record_state_for_undo
                  /\ pending_points' = Append(pending_points,
                                              <<Round6(pos[1], pix_w), Round6(pos[2], pix_h)>>)
                  /\ redo_stack' = <<>>
                  /\ UNCHANGED <<center_point, drag_index>>
        ELSE /\ center_point' = Some(<<Round6(pos[1], pix_w), Round6(pos[2], pix_h)>>)
             /\ UNCHANGED <<pending_points, histVars, drag_index>>

\* A drag move that normalises the pointer position as it comes (the fault
\* C18's statement is sensitive to).
handle_drag_move_unclamped(pos) ==
    IF stage # STAGE_RECTANGLE \/ drag_index = None \/ base_pixmap = None
    THEN /\ crashed' = FALSE
         /\ UNCHANGED pending_points
    ELSE LET width == Get(base_pixmap)[1]
             height == Get(base_pixmap)[2]
             i == Get(drag_index) + 1
         IN  IF i > Len(pending_points)
             THEN /\ crashed' = TRUE
                  /\ UNCHANGED pending_points
             ELSE /\ crashed' = FALSE
                  /\ pending_points' = [pending_points EXCEPT ![i] =
                                            <<Round6(pos[1], width), Round6(pos[2], height)>>]

\* handle_drag_move; writing pending_points[_drag_index] past the end of the
\* list raises IndexError, which leaves the state as it was.
handle_drag_move(pos) ==
    IF stage # STAGE_RECTANGLE \/ drag_index = None \/ base_pixmap = None
    THEN /\ crashed' = FALSE
         /\ UNCHANGED pending_points
    ELSE LET width == Get(base_pixmap)[1]
             height == Get(base_pixmap)[2]
             x == Max(0, Min(pos[1], width - 1))
             y == Max(0, Min(pos[2], height - 1))
             i == Get(drag_index) + 1
         IN  IF i > Len(pending_points)
             THEN /\ crashed' = TRUE
                  /\ UNCHANGED pending_points
             ELSE /\ crashed' = FALSE
                  /\ pending_points' = [pending_points EXCEPT ![i] =
                                            <<Round6(x, width), Round6(y, height)>>]

handle_drag_release ==
    drag_index' = None

(***************************************************************************)
(* ClickableLabel: the pointer events that reach the handlers.             *)
(***************************************************************************)
\* A left-button press; the button is up before it (~label_dragging).  The
\* event is named "add" when it appended a corner, else "press" when pos lies
\* on the image, "press_outside" otherwise.
mousePressEvent(pos) ==
    /\ ~label_dragging
    /\ Quiet
    /\ IF base_pixmap = None
       THEN UNCHANGED <<label_dragging, pending_points, center_point, histVars, drag_index>>
       ELSE /\ label_dragging' = TRUE
            /\ handle_image_click(pos)
    /\ UNCHANGED <<pixVars, shotVars, stage, rectangle_points, desc_input,
                   memoVars, storeVars, now>>
    /\ Event(IF Len(pending_points') > Len(pending_points) THEN "add"
             ELSE IF InsideImage(pos) THEN "press" ELSE "press_outside")

mouseMoveEvent(pos) ==
    /\ Event("move")
    /\ dialog' = <<>>
    /\ label_dragging
    /\ handle_drag_move(pos)
    /\ UNCHANGED <<label_dragging, pixVars, shotVars, stage, rectangle_points,
                   center_point, desc_input, histVars, drag_index, memoVars,
                   storeVars, now>>

\* The release that directly follows an "add" is named "release_after_add".
mouseReleaseEvent ==
    /\ Event(IF lastOp = "add" THEN "release_after_add" ELSE "release")
    /\ Quiet
    /\ label_dragging
    /\ label_dragging' = FALSE
    /\ handle_drag_release
    /\ UNCHANGED <<pixVars, shotVars, draftVars, histVars, memoVars, storeVars, now>>

(***************************************************************************)
(* Undo / redo.                                                            *)
(***************************************************************************)
\* An undo that does not remember the state it leaves (the fault C14's
\* statement is sensitive to).
handle_undo_forgetting ==
    /\ Event(IF lastOp \in {"add", "release_after_add"} THEN "undo_after_add" ELSE "undo")
    /\ Quiet
    /\ IF stage # STAGE_RECTANGLE \/ undo_stack = <<>>
       THEN UNCHANGED <<pending_points, histVars>>
       ELSE /\ redo_stack' = redo_stack
            /\ pending_points' = undo_stack[Len(undo_stack)]
            /\ undo_stack' = SubSeq(undo_stack, 1, Len(undo_stack) - 1)
    /\ UNCHANGED <<label_dragging, pixVars, shotVars, stage, rectangle_points,
                   center_point, desc_input, drag_index, memoVars, storeVars, now>>

\* The event is named "undo_after_add" when it follows an "add" with at most
\* the release of the mouse button in between.
handle_undo ==
    /\ Event(IF lastOp \in {"add", "release_after_add"} THEN "undo_after_add" ELSE "undo")
    /\ Quiet
    /\ IF stage # STAGE_RECTANGLE \/ undo_stack = <<>>
       THEN UNCHANGED <<pending_points, histVars>>
       ELSE /\ redo_stack' = Append(redo_stack, pending_points)
            /\ pending_points' = undo_stack[Len(undo_stack)]
            /\ undo_stack' = SubSeq(undo_stack, 1, Len(undo_stack) - 1)
    /\ UNCHANGED <<label_dragging, pixVars, shotVars, stage, rectangle_points,
                   center_point, desc_input, drag_index, memoVars, storeVars, now>>

\* The event is named "redo_after_undo" when it directly follows an
\* "undo_after_add".
handle_redo ==
    /\ Event(IF lastOp = "undo_after_add" THEN "redo_after_undo" ELSE "redo")
    /\ Quiet
    /\ IF stage # STAGE_RECTANGLE \/ redo_stack = <<>>
       THEN UNCHANGED <<pending_points, histVars>>
       ELSE /\ undo_stack' = Append(undo_stack, pending_points)
            /\ pending_points' = redo_stack[Len(redo_stack)]
            /\ redo_stack' = SubSeq(redo_stack, 1, Len(redo_stack) - 1)
    /\ UNCHANGED <<label_dragging, pixVars, shotVars, stage, rectangle_points,
                   center_point, desc_input, drag_index, memoVars, storeVars, now>>

(***************************************************************************)
(* Saving / cancelling.                                                    *)
(***************************************************************************)
\* open(path, "wb").write(bytes): the directory after writing one file.
WriteFile(files, name, bytes) ==
    { f \in files : f.name # name } \cup { [name |-> name, bytes |-> bytes] }

\* shutil.copy(src, dest_dir / name), errors ignored: the destination
\* directory after copying the file called name out of src_files.
CopyFile(src_files, dest_files, name) ==
    IF \E f \in src_files : f.name = name
    THEN WriteFile(dest_files, name, (CHOOSE f \in src_files : f.name = name).bytes)
    ELSE dest_files

\* The point dictionary with its coordinates exchanged (the fault C7's
\* statement is sensitive to).
PointDict_exchanged(p) == [x |-> p[2], y |-> p[1]]

\* {"x": x, "y": y}
PointDict(p) == [x |-> p[1], y |-> p[2]]

\* _append_annotation_to: the entries of the log file after the call; a
\* failed write (OSError) leaves the file as it was.
append_annotation_to(entry, log, writeOk) ==
    IF writeOk THEN Append(log, entry) ELSE log

\* The save that writes the screenshot file whatever the reference says (the
\* fault C11's statement is sensitive to).
screenshot_not_persisted_ignoring_reference == TRUE

\* if self.current_screenshot_path is None: the capture is not on disk yet.
screenshot_not_persisted == current_screenshot_path = None

handle_save_annotation(imgWriteOk, rectWriteOk, pointWriteOk) ==
    /\ Event("save")
    /\ crashed' = FALSE
    /\ LET desc == Strip(desc_input)
           keep == /\ image_written' = FALSE
                   /\ UNCHANGED <<current_screenshot_path, draftVars, histVars,
                                  memoVars, storeVars>>
       IN  IF stage # STAGE_POINT \/ center_point = None \/ Len(rectangle_points) # 4
           THEN dialog' = <<>> /\ keep
           ELSE IF desc = <<>>
           THEN dialog' = <<"Please enter a description.">> /\ keep
           ELSE IF screenshot_not_persisted /\ current_img_bytes = None
           THEN dialog' = <<"No image data available to save.">> /\ keep
           ELSE IF screenshot_not_persisted /\ ~imgWriteOk
           THEN dialog' = <<"Failed to save image">> /\ keep
           ELSE
           LET name == IF screenshot_not_persisted
                       THEN ScreenshotName(now)
                       ELSE Get(current_screenshot_path)
               files == IF screenshot_not_persisted
                        THEN WriteFile(image_files, name, Get(current_img_bytes))
                        ELSE image_files
               rect_entry == [screenshot |-> name,
                              timestamp |-> now,
                              points |-> [i \in 1..Len(rectangle_points) |->
                                            PointDict(rectangle_points[i])],
                              description |-> desc]
               point_entry == [screenshot |-> name,
                               timestamp |-> now,
                               point |-> PointDict(Get(center_point)),
                               description |-> desc]
           IN  /\ image_files' = files
               /\ image_written' = (screenshot_not_persisted)
               /\ current_screenshot_path' = Some(name)
               /\ rect_dir_images' = CopyFile(files, rect_dir_images, name)
               /\ point_dir_images' = CopyFile(files, point_dir_images, name)
               /\ rect_log' = append_annotation_to(rect_entry, rect_log, rectWriteOk)
               /\ point_log' = append_annotation_to(point_entry, point_log, pointWriteOk)
               /\ dialog' = (IF rectWriteOk THEN <<>> ELSE <<"Failed to write annotations">>)
                            \o (IF pointWriteOk THEN <<>> ELSE <<"Failed to write annotations">>)
               /\ last_description' = desc
               /\ last_saved_screenshot' = Some(name)
               /\ fully_reset_annotation_state
    /\ UNCHANGED <<label_dragging, pixVars, current_img_bytes, drag_index, now>>

\* handle_cancel_annotation that also forgets the capture, as a new capture
\* does (the fault C10's statement is sensitive to).
handle_cancel_annotation_dropping_capture ==
    /\ Event("cancel")
    /\ Quiet
    /\ fully_reset_annotation_state
    /\ current_img_bytes' = None
    /\ current_screenshot_path' = None
    /\ UNCHANGED <<label_dragging, pixVars, drag_index, memoVars, storeVars, now>>

handle_cancel_annotation ==
    /\ Event("cancel")
    /\ Quiet
    /\ fully_reset_annotation_state
    /\ UNCHANGED <<label_dragging, pixVars, shotVars, drag_index, memoVars,
                   storeVars, now>>

(***************************************************************************)
(* Zoom.                                                                   *)
(***************************************************************************)
\* A zoom that drops the pending corners when it rescales (the fault C17's
\* statement is sensitive to).
zoom_redrawing_from_scratch(factor) ==
    /\ Event("zoom")
    /\ Quiet
    /\ IF base_pixmap = None \/ original_pixmap = None
       THEN UNCHANGED pixVars
       ELSE LET scaled == FracMul(current_scale, factor)
                new_scale == IF FracLess(scaled, <<1, 5>>) THEN <<1, 5>>
                             ELSE IF FracLess(<<5, 1>>, scaled) THEN <<5, 1>>
                             ELSE scaled
                orig == Get(original_pixmap)
                target_w == FracTimesInt(orig[1], new_scale)
                target_h == FracTimesInt(orig[2], new_scale)
            IN  IF FracLess(FracAbsDiff(new_scale, current_scale), <<1, 1000>>)
                THEN UNCHANGED pixVars
                ELSE /\ current_scale' = new_scale
                     /\ base_pixmap' = Some(IF target_w <= 0 \/ target_h <= 0
                                            THEN <<0, 0>>
                                            ELSE ScaledKeepAspect(orig, target_w, target_h))
                     /\ UNCHANGED original_pixmap
    /\ pending_points' = IF pixVars' # pixVars THEN <<>> ELSE pending_points
    /\ UNCHANGED <<label_dragging, shotVars, stage, rectangle_points, center_point,
                   desc_input, histVars, drag_index, memoVars, storeVars, now>>

zoom(factor) ==
    /\ Event("zoom")
    /\ Quiet
    /\ IF base_pixmap = None \/ original_pixmap = None
       THEN UNCHANGED pixVars
       ELSE LET scaled == FracMul(current_scale, factor)
                new_scale == IF FracLess(scaled, <<1, 5>>) THEN <<1, 5>>
                             ELSE IF FracLess(<<5, 1>>, scaled) THEN <<5, 1>>
                             ELSE scaled
                orig == Get(original_pixmap)
                target_w == FracTimesInt(orig[1], new_scale)
                target_h == FracTimesInt(orig[2], new_scale)
            IN  IF FracLess(FracAbsDiff(new_scale, current_scale), <<1, 1000>>)
                THEN UNCHANGED pixVars
                ELSE /\ current_scale' = new_scale
                     /\ base_pixmap' = Some(IF target_w <= 0 \/ target_h <= 0
                                            THEN <<0, 0>>
                                            ELSE ScaledKeepAspect(orig, target_w, target_h))
                     /\ UNCHANGED original_pixmap
    /\ UNCHANGED <<label_dragging, shotVars, draftVars, histVars, drag_index,
                   memoVars, storeVars, now>>

(***************************************************************************)
(* Environment: typing into the description box, the clock.                *)
(***************************************************************************)
TypeDescription(text) ==
    /\ Event("type")
    /\ Quiet
    /\ desc_input' = text
    /\ UNCHANGED <<label_dragging, pixVars, shotVars, stage, rectangle_points,
                   pending_points, center_point, histVars, drag_index, memoVars,
                   storeVars, now>>

Tick ==
    /\ Event("tick")
    /\ Quiet
    /\ now < MaxTime
    /\ now' = now + 1
    /\ UNCHANGED <<label_dragging, pixVars, shotVars, draftVars, histVars,
                   drag_index, memoVars, storeVars>>

(***************************************************************************)
(* The upload server (src/server.py).                                      *)
(***************************************************************************)
\* str.lower() on the characters that occur in the file names used here.
LowerChar(c) == CASE c = "P" -> "p" [] c = "N" -> "n" [] c = "G" -> "g"
                  [] c = "J" -> "j" [] c = "S" -> "s" [] c = "O" -> "o"
                  [] OTHER -> c
Lower(name) == [i \in DOMAIN name |-> LowerChar(name[i])]

\* str.endswith(suffix)
EndsWith(name, suffix) ==
    /\ Len(name) >= Len(suffix)
    /\ SubSeq(name, Len(name) - Len(suffix) + 1, Len(name)) = suffix

\* Path(name).suffix: the part from the last dot, when that dot is neither
\* the first nor the last character of the name.
Suffix(name) ==
    LET dots == { i \in DOMAIN name : name[i] = "." }
    IN  IF dots = {} THEN <<>>
        ELSE LET last == CHOOSE i \in dots : \A j \in dots : j <= i
             IN  IF last = 1 \/ last = Len(name) THEN <<>>
                 ELSE SubSeq(name, last, Len(name))

\* File names a client may send.
ImageNames == { <<"a", ".", "p", "n", "g">>, <<"a", ".", "P", "N", "G">>,
                <<"a", ".", "t", "x", "t">>, <<"p", "n", "g">> }
JsonNames == { <<"b", ".", "j", "s", "o", "n">>, <<"b", ".", "t", "x", "t">> }

\* The HTTPException raised by the file-type validation: Optional status code.
validation_error(image, annotations, center_points) ==
    IF ~(\/ EndsWith(Lower(image), <<".", "p", "n", "g">>)
         \/ EndsWith(Lower(image), <<".", "j", "p", "g">>)
         \/ EndsWith(Lower(image), <<".", "j", "p", "e", "g">>))
    THEN Some(400)
    ELSE IF ~EndsWith(Lower(annotations), <<".", "j", "s", "o", "n">>)
    THEN Some(400)
    ELSE IF ~EndsWith(Lower(center_points), <<".", "j", "s", "o", "n">>)
    THEN Some(400)
    ELSE None

\* upload_files: timestamp is datetime.now() formatted to milliseconds,
\* written the number of the three file writes that succeed before one
\* raises OSError (3: none fails).  Every exception raised inside the try
\* block, the HTTPException of the validation included, is caught by
\* `except Exception` and answered with status 500.
upload_files(image, annotations, center_points, timestamp, written) ==
    LET raised == validation_error(image, annotations, center_points)
        targets == << <<timestamp, "_screenshot", Suffix(image)>>,
                      <<timestamp, "_annotations", Suffix(annotations)>>,
                      <<timestamp, "_center_points", Suffix(center_points)>> >>
    IN  /\ http_request' = Some([image |-> image, annotations |-> annotations,
                                 center_points |-> center_points])
        /\ IF raised # None
           THEN /\ http_status' = 500
                /\ UNCHANGED uploads
           ELSE /\ uploads' = uploads \cup { targets[i] : i \in 1..written }
                /\ http_status' = IF written < 3 THEN 500 ELSE 200
        /\ UNCHANGED guiVars

(***************************************************************************)
(* The specification.                                                      *)
(***************************************************************************)
\* The exploration counters: a snapshot was recorded, the draft was reset,
\* the scale changed.
Counted(pushed, reset, zoomed, captured) ==
    /\ pushes' = IF reset THEN 0 ELSE IF pushed THEN pushes + 1 ELSE pushes
    /\ zooms' = IF captured THEN 0 ELSE IF zoomed THEN zooms + 1 ELSE zooms
    /\ UNCHANGED serverVars
Uncounted == UNCHANGED <<pushes, zooms, serverVars>>

Capture == \E deviceOk \in BOOLEAN, img \in Images, max_height \in ScreenHeights :
               /\ handle_take_screenshot(deviceOk, img, max_height)
               /\ Counted(FALSE, dialog' = <<>>, FALSE, dialog' = <<>>)
PressIn(positions, limit) ==
    \E pos \in positions :
        /\ mousePressEvent(pos)
        /\ undo_stack' # undo_stack => pushes < limit
        /\ Counted(undo_stack' # undo_stack, FALSE, FALSE, FALSE)
Press == PressIn(ClickPos, MaxPushes)
Move == \E pos \in DragPos : mouseMoveEvent(pos) /\ Uncounted
Release == mouseReleaseEvent /\ Uncounted
Undo == handle_undo /\ Uncounted
Redo == handle_redo /\ Uncounted
NextStage == handle_next_stage /\ Uncounted
BackStage == handle_back_stage /\ Uncounted
Save == \E imgWriteOk, rectWriteOk, pointWriteOk \in BOOLEAN :
            /\ handle_save_annotation(imgWriteOk, rectWriteOk, pointWriteOk)
            /\ Counted(FALSE, stage # stage', FALSE, FALSE)
Cancel == handle_cancel_annotation /\ Counted(FALSE, TRUE, FALSE, FALSE)
Zoom == \E factor \in ZoomFactors :
            /\ zooms < MaxZooms
            /\ zoom(factor)
            /\ Counted(FALSE, FALSE, current_scale' # current_scale, FALSE)
Type == \E text \in Texts : TypeDescription(text) /\ Uncounted
\* The clock is part of the specifications about file names only.
Clock == Tick /\ Uncounted

\* Spec: the whole application.  The run ends when a log holds MaxSaves entries.
LogsFull == Len(rect_log) >= MaxSaves \/ Len(point_log) >= MaxSaves

Next ==
    /\ ~LogsFull
    /\ \/ Capture
       \/ Press
       \/ Move
       \/ Release
       \/ Undo
       \/ Redo
       \/ NextStage
       \/ BackStage
       \/ Save
       \/ Cancel
       \/ Zoom
       \/ Type

Spec == Init /\ [][Next]_vars

\* SpecEdit: rectangle editing and the stage transitions, with two pointer
\* positions inside the image and room for a corner drag; a move that changes
\* a corner counts as an edit.
EditPress == PressIn(EditClickPos, MaxEdits)
EditMove == \E pos \in DragPos :
                /\ mouseMoveEvent(pos)
                /\ pending_points' # pending_points => pushes < MaxEdits
                /\ Counted(pending_points' # pending_points, FALSE, FALSE, FALSE)

NextEdit ==
    \/ Capture
    \/ EditPress
    \/ EditMove
    \/ Release
    \/ Undo
    \/ Redo
    \/ NextStage
    \/ BackStage
    \/ Cancel

SpecEdit == Init /\ [][NextEdit]_vars

\* SpecSave: the way to a saved annotation: four corners, a corner drag, the
\* point stage with a second pointer position, the description, the save with
\* every outcome of its three writes.
SavePress == PressIn(ClickPos, MaxSavePushes)
PointPress == stage = STAGE_POINT /\ PressIn(PointClickPos, MaxSavePushes)

NextSave ==
    /\ ~LogsFull
    /\ \/ Capture
       \/ SavePress
       \/ PointPress
       \/ Move
       \/ Release
       \/ NextStage
       \/ BackStage
       \/ Save
       \/ Cancel
       \/ Type

SpecSave == Init /\ [][NextSave]_vars

\* SpecPersist: captures, annotations of four clicks at one position and saves
\* while the clock runs, so that screenshot names differ between captures.
PersistPress == PressIn({ <<2, 3>> }, MaxPushes)
TypeText == TypeDescription(<<" ", "d">>) /\ Uncounted

NextPersist ==
    /\ ~LogsFull
    /\ \/ Capture
       \/ PersistPress
       \/ Release
       \/ NextStage
       \/ Save
       \/ TypeText
       \/ Clock

SpecPersist == Init /\ [][NextPersist]_vars

\* SpecCentroid: a 200 x 200 capture shown at full size, clicks at the four
\* positions of the end-to-end scenario in any order, and Next.
ScenarioImage == [bytes |-> "shot", w |-> 200, h |-> 200]
ScenarioHeight == 200
ScenarioClicks == << <<10, 10>>, <<100, 10>>, <<100, 100>>, <<10, 100>> >>
ScenarioCapture == /\ handle_take_screenshot(TRUE, ScenarioImage, ScenarioHeight)
                   /\ Counted(FALSE, TRUE, FALSE, TRUE)
ScenarioPress == PressIn({ ScenarioClicks[i] : i \in DOMAIN ScenarioClicks }, MaxPushes)

NextCentroid ==
    \/ ScenarioCapture
    \/ ScenarioPress
    \/ Release
    \/ NextStage

SpecCentroid == Init /\ [][NextCentroid]_vars

\* SpecRoundTrip: captures of every size up to MaxSide x MaxSide, shown at
\* full size, and one click at any pointer position on or just off the image.
RoundTripCapture == \E w \in 1..MaxSide, h \in 1..MaxSide :
                        /\ handle_take_screenshot(TRUE, [bytes |-> "imgA", w |-> w, h |-> h],
                                                  MaxSide)
                        /\ Counted(FALSE, TRUE, FALSE, TRUE)
RoundTripPress == /\ pending_points = <<>>
                  /\ PressIn((-1..MaxSide) \X (-1..MaxSide), MaxPushes)

NextRoundTrip ==
    \/ RoundTripCapture
    \/ RoundTripPress
    \/ Release

SpecRoundTrip == Init /\ [][NextRoundTrip]_vars

\* SpecServer: uploads to the server, one request at a time.
Upload == \E image \in ImageNames, annotations \in JsonNames, center_points \in JsonNames,
             timestamp \in 1..MaxStamps, written \in 0..3 :
              upload_files(image, annotations, center_points, timestamp, written)

NextServer == Upload

SpecServer == Init /\ [][NextServer]_vars

\* SpecHistory: one pointer position, no bound on the depth of the history
\* stacks below MaxDeepPushes recorded snapshots.
DeepPress == PressIn({ <<2, 3>> }, MaxDeepPushes)
DeepCapture == /\ handle_take_screenshot(TRUE, [bytes |-> "imgA", w |-> 30, h |-> 30], 24)
               /\ Counted(FALSE, TRUE, FALSE, TRUE)

NextHistory ==
    \/ DeepCapture
    \/ DeepPress
    \/ Release
    \/ Undo
    \/ Redo

SpecHistory == Init /\ [][NextHistory]_vars

\* SpecHit: rectangles clicked at positions 8 or 9 pixels apart on one axis or
\* on both, and presses at these positions once four corners are pending.
HitClickPos == { <<3, 3>>, <<12, 3>>, <<12, 12>>, <<20, 12>> }
HitPress == PressIn(HitClickPos, MaxSavePushes)

NextHit ==
    \/ DeepCapture
    \/ HitPress
    \/ Release

SpecHit == Init /\ [][NextHit]_vars

\* SpecResave: the application after a first annotation of screenshot imgA
\* was saved with the description "d" (a state Spec reaches, see AfterFirstSave).
FirstName == ScreenshotName(1)
FirstCorner == <<83333, 125000>>
FirstRectEntry == [screenshot |-> FirstName,
                   timestamp |-> 1,
                   points |-> [i \in 1..4 |-> PointDict(FirstCorner)],
                   description |-> <<"d">>]
FirstPointEntry == [screenshot |-> FirstName,
                    timestamp |-> 1,
                    point |-> PointDict(FirstCorner),
                    description |-> <<"d">>]

AfterFirstSave ==
    /\ label_dragging = FALSE
    /\ original_pixmap = Some(<<30, 30>>)
    /\ base_pixmap = Some(<<24, 24>>)
    /\ current_scale = <<4, 5>>
    /\ current_img_bytes = Some("imgA")
    /\ current_screenshot_path = Some(FirstName)
    /\ stage = STAGE_RECTANGLE
    /\ rectangle_points = <<>>
    /\ pending_points = <<>>
    /\ center_point = None
    /\ undo_stack = <<>>
    /\ redo_stack = <<>>
    /\ drag_index = None
    /\ desc_input = <<>>
    /\ last_description = <<"d">>
    /\ last_saved_screenshot = Some(FirstName)
    /\ image_files = { [name |-> FirstName, bytes |-> "imgA"] }
    /\ image_written = TRUE
    /\ rect_dir_images = { [name |-> FirstName, bytes |-> "imgA"] }
    /\ point_dir_images = { [name |-> FirstName, bytes |-> "imgA"] }
    /\ rect_log = <<FirstRectEntry>>
    /\ point_log = <<FirstPointEntry>>
    /\ now = 1
    /\ dialog = <<>>
    /\ crashed = FALSE
    /\ lastOp = "save"
    /\ pushes = 0
    /\ zooms = 0
    /\ uploads = {}
    /\ http_request = None
    /\ http_status = 0

ResaveLogsFull == Len(rect_log) > MaxSaves \/ Len(point_log) > MaxSaves

NextResave ==
    /\ ~ResaveLogsFull
    /\ \/ Capture
       \/ Press
       \/ Move
       \/ Release
       \/ Undo
       \/ Redo
       \/ NextStage
       \/ BackStage
       \/ Save
       \/ Cancel
       \/ Zoom
       \/ Type
       \/ Clock

SpecResave == AfterFirstSave /\ [][NextResave]_vars

\* SpecZoom: zooming at every point of a second annotation of a saved capture
\* (reduced to 4/5 to fit the screen) and of a new, very tall capture.
ZoomImages == { [bytes |-> "imgA", w |-> 30, h |-> 30],
                [bytes |-> "tall", w |-> 30, h |-> 150] }
ZoomCapture == \E img \in ZoomImages, max_height \in ScreenHeights :
                   /\ handle_take_screenshot(TRUE, img, max_height)
                   /\ Counted(FALSE, TRUE, FALSE, TRUE)

NextZoom ==
    \/ ZoomCapture
    \/ PersistPress
    \/ Release
    \/ Undo
    \/ NextStage
    \/ TypeText
    \/ Zoom

SpecZoom == AfterFirstSave /\ [][NextZoom]_vars

\* SpecRecapture: after the first saved annotation, new captures (of the same
\* or of another screen content), their annotations and saves, while the
\* clock stands or advances.
NextRecapture ==
    /\ ~ResaveLogsFull
    /\ \/ ZoomCapture
       \/ PersistPress
       \/ Release
       \/ NextStage
       \/ TypeText
       \/ Save
       \/ Clock

SpecRecapture == AfterFirstSave /\ [][NextRecapture]_vars

(***************************************************************************)
(* Properties.                                                             *)
(***************************************************************************)
\* C1: the number of pending corners is always between 0 and 4, and a click
\* that would add a corner while four are pending and none is hit leaves the
\* pending corners and both history stacks unchanged.
C1_PendingBounded ==
    /\ [](Len(pending_points) \in 0..4)
    /\ [][\A pos \in EditClickPos :
            (/\ mousePressEvent(pos)
             /\ InsideImage(pos)
             /\ stage = STAGE_RECTANGLE
             /\ Len(pending_points) = 4
             /\ get_nearest_point_index(pos) = None)
            => UNCHANGED <<pending_points, undo_stack, redo_stack>>]_vars

\* A click on the image with four pending corners that neither added a corner
\* (the newest snapshot has four corners, taken when a drag began) nor grabbed
\* one (no corner is being dragged).
C1_Witness ==
    /\ lastOp = "press"
    /\ stage = STAGE_RECTANGLE
    /\ Len(pending_points) = 4
    /\ drag_index = None
    /\ undo_stack # <<>>
    /\ Len(undo_stack[Len(undo_stack)]) = 4

\* C2: the stage becomes the point stage only by a next event issued in the
\* rectangle stage with exactly four pending corners; any other next event
\* shows nothing and leaves stage, pending corners, finalized corners, center
\* and history as they were.
C2_NextOnlyWithFourCorners ==
    /\ [][(stage # STAGE_POINT /\ stage' = STAGE_POINT) =>
            (lastOp' = "next" /\ stage = STAGE_RECTANGLE /\ Len(pending_points) = 4)]_vars
    /\ [][lastOp' = "next" =>
            IF stage = STAGE_RECTANGLE /\ Len(pending_points) = 4
            THEN stage' = STAGE_POINT
            ELSE /\ dialog' = <<>>
                 /\ UNCHANGED <<stage, pending_points, rectangle_points,
                                center_point, undo_stack, redo_stack>>]_vars

\* A next event issued with two pending corners: still the rectangle stage.
C2_Witness ==
    /\ lastOp = "next"
    /\ stage = STAGE_RECTANGLE
    /\ Len(pending_points) = 2
    /\ Len(undo_stack) = 2

\* C3: both history stacks are empty whenever the stage is the point stage, and
\* right after a back event that left the point stage.
C3_HistoryEmptyOutsideEditing ==
    /\ [](stage = STAGE_POINT => (undo_stack = <<>> /\ redo_stack = <<>>))
    /\ [][(lastOp' = "back" /\ stage = STAGE_POINT) =>
            (undo_stack' = <<>> /\ redo_stack' = <<>>)]_vars

\* C4: neither history stack ever holds more than 20 snapshots.
C4_HistoryBounded ==
    /\ Len(undo_stack) <= UNDO_LIMIT
    /\ Len(redo_stack) <= UNDO_LIMIT

C6_DuplicateSaveConfirmed ==
    [][(/\ lastOp' = "save"
        /\ stage = STAGE_POINT
        /\ center_point # None
        /\ Len(rectangle_points) = 4
        /\ Strip(desc_input) # <<>>
        /\ current_screenshot_path # None
        /\ current_screenshot_path = last_saved_screenshot
        /\ Strip(desc_input) = last_description) =>
        Cardinality({ i \in DOMAIN dialog' :
                        dialog'[i] = "Save duplicate annotation?" }) = 1]_vars

C8_FailedCaptureChangesNothing ==
    [][(lastOp' = "capture" /\ dialog' # <<>>) =>
        UNCHANGED <<stage, pending_points, rectangle_points, center_point,
                    desc_input, undo_stack, redo_stack,
                    current_screenshot_path, current_img_bytes>>]_vars

\* C9: a successful capture resets the draft (rectangle stage, no pending
\* corners, no finalized corners, no center, empty description, empty history),
\* unsets the screenshot reference, and clears the remembered description and
\* screenshot of the last save.
C9_CaptureClearsMemory ==
    [][(lastOp' = "capture" /\ dialog' = <<>>) =>
        /\ stage' = STAGE_RECTANGLE
        /\ pending_points' = <<>>
        /\ rectangle_points' = <<>>
        /\ center_point' = None
        /\ desc_input' = <<>>
        /\ undo_stack' = <<>>
        /\ redo_stack' = <<>>
        /\ current_screenshot_path' = None
        /\ last_description' = <<>>
        /\ last_saved_screenshot' = None]_vars

\* C10: a cancel event, in either stage, yields the rectangle stage with no
\* pending corners, no finalized corners, no center, an empty description and
\* empty history, and leaves the screenshot reference, the image bytes and the
\* zoom scale unchanged.
C10_CancelResetsDraftOnly ==
    [][lastOp' = "cancel" =>
        /\ stage' = STAGE_RECTANGLE
        /\ pending_points' = <<>>
        /\ rectangle_points' = <<>>
        /\ center_point' = None
        /\ desc_input' = <<>>
        /\ undo_stack' = <<>>
        /\ redo_stack' = <<>>
        /\ UNCHANGED <<current_screenshot_path, current_img_bytes, current_scale>>]_vars

\* A cancel left a saved screenshot's reference, its bytes and the scale of a
\* reduced display in place.
C10_Witness ==
    /\ lastOp = "cancel"
    /\ stage = STAGE_RECTANGLE
    /\ pending_points = <<>>
    /\ current_screenshot_path # None
    /\ current_img_bytes # None
    /\ current_scale # <<1, 1>>

\* C11: the screenshot file is written at most once per capture: a save writes
\* it only while the screenshot reference is unset, and then sets the reference
\* to the file it wrote; a save with the reference set writes no file, keeps
\* the reference and names that file in its records; only a capture unsets the
\* reference.
C11_ImageWrittenOncePerCapture ==
    /\ [][image_written' =>
            /\ lastOp' = "save"
            /\ current_screenshot_path = None
            /\ current_img_bytes # None
            /\ current_screenshot_path' = Some(ScreenshotName(now))
            /\ [name |-> ScreenshotName(now), bytes |-> Get(current_img_bytes)]
                   \in image_files']_vars
    /\ [][(lastOp' = "save" /\ current_screenshot_path # None) =>
            /\ ~image_written'
            /\ image_files' = image_files
            /\ current_screenshot_path' = current_screenshot_path
            /\ Len(rect_log') > Len(rect_log) =>
                   rect_log'[Len(rect_log')].screenshot = Get(current_screenshot_path)
            /\ Len(point_log') > Len(point_log) =>
                   point_log'[Len(point_log')].screenshot = Get(current_screenshot_path)]_vars
    /\ [][(current_screenshot_path # None /\ current_screenshot_path' = None) =>
            lastOp' = "capture"]_vars

\* A save at time 2 wrote no file and named, in its records, the file that a
\* save at time 1 had written for the same capture.
C11_Witness ==
    /\ lastOp = "save"
    /\ ~image_written
    /\ current_screenshot_path = Some(ScreenshotName(1))
    /\ Len(rect_log) = 1
    /\ rect_log[1].screenshot = ScreenshotName(1)
    /\ rect_log[1].timestamp = 2

\* C12: a save in which appending a record failed leaves the duplicate-guard
\* bookkeeping (last_description, last_saved_screenshot) at its previous
\* values. The program violates this: it updates both after every save that
\* passed validation and wrote the image.
C12_FailedAppendKeepsBookkeeping ==
    [][(/\ lastOp' = "save"
        /\ \E i \in DOMAIN dialog' : dialog'[i] = "Failed to write annotations")
       => UNCHANGED memoVars]_vars

\* C13: a save that fails validation (stage not the point stage, center unset,
\* not four finalized corners, or a description of blanks only) writes no
\* image, appends no record, leaves the screenshot reference, the draft, the
\* history and the duplicate-guard bookkeeping unchanged.
C13_InvalidSaveChangesNothing ==
    [][(/\ lastOp' = "save"
        /\ \/ stage # STAGE_POINT
           \/ center_point = None
           \/ Len(rectangle_points) < 4
           \/ \A i \in DOMAIN desc_input : desc_input[i] = " ")
       => /\ ~image_written'
          /\ UNCHANGED <<storeVars, current_screenshot_path, draftVars, histVars, memoVars>>
          /\ UNCHANGED <<pixVars, current_img_bytes>>]_vars

\* A save in the point stage was rejected for its blank description.
C13_Witness ==
    /\ lastOp = "save"
    /\ stage = STAGE_POINT
    /\ center_point # None
    /\ Len(rectangle_points) = 4
    /\ desc_input = <<" ">>
    /\ dialog = <<"Please enter a description.">>

\* C14: in the rectangle stage, an undo directly after adding one corner
\* restores the pending corners to their value before the add, and a redo
\* directly after that undo restores the value that includes the added corner.
\* Stated step by step: the add appends one corner and records the previous
\* list on top of the undo stack; the undo removes that corner again and
\* records the list it leaves on top of the redo stack; the redo puts that
\* list back.
C14_UndoRedoAfterAdd ==
    /\ [][lastOp' = "add" =>
            /\ stage = STAGE_RECTANGLE
            /\ Len(pending_points') = Len(pending_points) + 1
            /\ SubSeq(pending_points', 1, Len(pending_points)) = pending_points
            /\ undo_stack'[Len(undo_stack')] = pending_points]_vars
    /\ [][lastOp' = "release_after_add" => UNCHANGED <<pending_points, histVars>>]_vars
    /\ [][lastOp' = "undo_after_add" =>
            /\ pending_points # <<>>
            /\ pending_points' = SubSeq(pending_points, 1, Len(pending_points) - 1)
            /\ redo_stack' = <<pending_points>>]_vars
    /\ [][lastOp' = "redo_after_undo" =>
            /\ pending_points' = redo_stack[Len(redo_stack)]
            /\ Len(pending_points') = Len(pending_points) + 1
            /\ SubSeq(pending_points', 1, Len(pending_points)) = pending_points
            /\ redo_stack' = <<>>]_vars

\* A redo directly after an undo that followed the add of a third corner: the
\* three corners are back and the undo stack holds the three earlier lists.
C14_Witness ==
    /\ lastOp = "redo_after_undo"
    /\ stage = STAGE_RECTANGLE
    /\ Len(pending_points) = 3
    /\ redo_stack = <<>>
    /\ Len(undo_stack) = 3
    /\ undo_stack[3] = SubSeq(pending_points, 1, 2)

\* C15: every fresh mutating action other than undo and redo (adding a corner,
\* starting a corner drag, moving a dragged corner) leaves the redo stack
\* empty. The program violates this: only adding a corner clears the stack.
C15_FreshActionClearsRedo ==
    [][(/\ lastOp' \in {"add", "press", "move"}
        /\ \/ pending_points' # pending_points
           \/ drag_index = None /\ drag_index' # None)
       => redo_stack' = <<>>]_vars

\* C16: once an image is loaded the zoom scale lies in [0.2, 5.0], right after
\* a capture included. The program violates this: a capture sets the scale to
\* the reduction that fits the screenshot to the screen, without clamping.
C16_ScaleInRange ==
    original_pixmap # None =>
        /\ ~FracLess(current_scale, <<1, 5>>)
        /\ ~FracLess(<<5, 1>>, current_scale)

\* C17: a zoom request leaves the stage, the pending and finalized corners,
\* the center point, both history stacks, the description and the screenshot
\* reference unchanged, and everything else but the scale and the displayed
\* pixmap (the image bytes, the original pixmap, the duplicate-guard
\* bookkeeping, the stored files) as well.
C17_ZoomChangesScaleOnly ==
    [][lastOp' = "zoom" =>
        /\ UNCHANGED <<stage, pending_points, rectangle_points, center_point>>
        /\ UNCHANGED <<undo_stack, redo_stack, desc_input, current_screenshot_path>>
        /\ UNCHANGED <<original_pixmap, current_img_bytes, drag_index, label_dragging,
                       memoVars, storeVars>>]_vars

\* A zoom-in from 4/5 to full size during the second annotation of a saved
\* capture: two corners pending, two undo snapshots, a description typed.
C17_Witness ==
    /\ lastOp = "zoom"
    /\ current_scale = <<1, 1>>
    /\ base_pixmap = Some(<<30, 30>>)
    /\ current_screenshot_path # None
    /\ Len(pending_points) = 2
    /\ Len(undo_stack) = 2
    /\ desc_input = <<" ", "d">>

\* C18: every stored coordinate (pending corners, finalized corners, center)
\* lies in [0, 1] (0..MILLION millionths) on both axes in every reachable
\* state; a press outside the displayed image changes nothing of the
\* annotation, the history, the capture or the store; a corner moved by a drag
\* lies in [0, (width-1)/width] x [0, (height-1)/height].
C18_CoordinatesInRange ==
    /\ [](\A p \in { pending_points[i] : i \in DOMAIN pending_points }
                  \cup { rectangle_points[i] : i \in DOMAIN rectangle_points }
                  \cup { center_point[i] : i \in DOMAIN center_point } :
             /\ p[1] \in 0..MILLION
             /\ p[2] \in 0..MILLION)
    /\ [][lastOp' = "press_outside" =>
            UNCHANGED <<pixVars, shotVars, draftVars, histVars, drag_index,
                        memoVars, storeVars>>]_vars
    /\ [][(lastOp' = "move" /\ pending_points' # pending_points) =>
            /\ base_pixmap # None
            /\ DOMAIN pending_points' = DOMAIN pending_points
            /\ \A i \in DOMAIN pending_points :
                   pending_points'[i] # pending_points[i] =>
                       /\ pending_points'[i][1] \in
                              0..Round6(Get(base_pixmap)[1] - 1, Get(base_pixmap)[1])
                       /\ pending_points'[i][2] \in
                              0..Round6(Get(base_pixmap)[2] - 1, Get(base_pixmap)[2])]_vars

\* A corner was dragged to a pointer position left of and below the image and
\* stored at the clamped position (0, 23/24); the rectangle was then finalized
\* with its center computed.
C18_Witness ==
    /\ stage = STAGE_POINT
    /\ center_point # None
    /\ \E i \in DOMAIN rectangle_points : rectangle_points[i] = <<0, 958333>>

\* C19 as stated: after a capture shown at 200 x 200 and clicks at (10,10),
\* (100,10), (100,100), (10,100), Next sets the center point to (0.3, 0.3).
C19_ScenarioCenterThreeTenths ==
    [][(/\ lastOp' = "next"
        /\ stage = STAGE_RECTANGLE
        /\ base_pixmap = Some(<<200, 200>>)
        /\ pending_points = [i \in 1..4 |-> <<Round6(ScenarioClicks[i][1], 200),
                                               Round6(ScenarioClicks[i][2], 200)>>])
       => center_point' = Some(<<300000, 300000>>)]_vars

\* C19 amended: after a capture shown at 200 x 200 and clicks at (10,10),
\* (100,10), (100,100), (10,100), which are stored as (0.05,0.05), (0.5,0.05),
\* (0.5,0.5), (0.05,0.5), Next finalizes these corners and sets the center
\* point to their mean (0.275, 0.275).
C19_ScenarioCenter ==
    [][(/\ lastOp' = "next"
        /\ stage = STAGE_RECTANGLE
        /\ base_pixmap = Some(<<200, 200>>)
        /\ pending_points = [i \in 1..4 |-> <<Round6(ScenarioClicks[i][1], 200),
                                               Round6(ScenarioClicks[i][2], 200)>>])
       => /\ pending_points = << <<50000, 50000>>, <<500000, 50000>>,
                                 <<500000, 500000>>, <<50000, 500000>> >>
          /\ stage' = STAGE_POINT
          /\ rectangle_points' = pending_points
          /\ center_point' = Some(<<275000, 275000>>)]_vars

\* The scenario has run: the four corners in the order of the clicks are
\* finalized and the center is set.
C19_Witness ==
    /\ lastOp = "next"
    /\ stage = STAGE_POINT
    /\ base_pixmap = Some(<<200, 200>>)
    /\ rectangle_points = << <<50000, 50000>>, <<500000, 50000>>,
                             <<500000, 500000>>, <<50000, 500000>> >>
    /\ center_point = Some(<<275000, 275000>>)

\* C20: for every pixel p of the displayed image, the corner that a click at p
\* stores (p divided by the displayed dimension, rounded to 6 decimals) is
\* drawn and hit-tested (multiplied by the dimension, truncated) at a pixel
\* within one pixel of p on each axis. The stored corner is the normalisation
\* of a pixel of the image, and every pixel with that normalisation is within
\* one pixel of the corner's pixel.
C20_RoundTripWithinOnePixel ==
    [][(lastOp' = "add" /\ base_pixmap # None) =>
        LET width == Get(base_pixmap)[1]
            height == Get(base_pixmap)[2]
            corner == pending_points'[Len(pending_points')]
        IN  /\ \E x \in 0..(width - 1) : corner[1] = Round6(x, width)
            /\ \E y \in 0..(height - 1) : corner[2] = Round6(y, height)
            /\ \A x \in 0..(width - 1) :
                   corner[1] = Round6(x, width) => Abs(Denorm(corner[1], width) - x) <= 1
            /\ \A y \in 0..(height - 1) :
                   corner[2] = Round6(y, height) => Abs(Denorm(corner[2], height) - y) <= 1]_vars

\* A click at (1, 5) on a 3 x 7 image was stored as (0.333333, 0.714286); the
\* corner is drawn at pixel (0, 5): one pixel off on the x axis, exact on y.
C20_Witness ==
    /\ lastOp = "add"
    /\ base_pixmap = Some(<<3, 7>>)
    /\ pending_points = << <<333333, 714286>> >>
    /\ Denorm(333333, 3) = 0
    /\ Denorm(714286, 7) = 5

\* C21 as stated: a valid Next copies the four pending corners in order into
\* the finalized corners, sets the center point to exactly their per-axis
\* arithmetic mean, and leaves the pending corners empty.
C21_NextCenterExactMean ==
    [][(lastOp' = "next" /\ stage = STAGE_RECTANGLE /\ Len(pending_points) = 4) =>
        /\ rectangle_points' = pending_points
        /\ pending_points' = <<>>
        /\ center_point' # None
        /\ \A axis \in 1..2 :
               4 * Get(center_point')[axis] =
                   pending_points[1][axis] + pending_points[2][axis]
                       + pending_points[3][axis] + pending_points[4][axis]]_vars

\* C21 amended: a valid Next copies the four pending corners in order into
\* the finalized corners, sets the center point to their per-axis arithmetic
\* mean rounded to 6 decimals (at most half a millionth from the mean), moves
\* to the point stage and leaves the pending corners empty; the rounded mean
\* of the unit-square corners (0,0), (1,0), (1,1), (0,1) is (0.5, 0.5).
C21_NextFinalizes ==
    [][(lastOp' = "next" /\ stage = STAGE_RECTANGLE /\ Len(pending_points) = 4) =>
        /\ rectangle_points' = pending_points
        /\ pending_points' = <<>>
        /\ stage' = STAGE_POINT
        /\ center_point' # None
        /\ \A axis \in 1..2 :
               Abs(4 * Get(center_point')[axis]
                     - (pending_points[1][axis] + pending_points[2][axis]
                          + pending_points[3][axis] + pending_points[4][axis])) <= 2
        /\ \A axis \in 1..2 :
               CentroidAxis(SumAxis(<< <<0, 0>>, <<MILLION, 0>>,
                                       <<MILLION, MILLION>>, <<0, MILLION>> >>, axis))
                   = { 500000 }]_vars

\* Next has finalized four corners whose mean on the x axis is not a whole
\* number of millionths; the center holds the rounded value.
C21_Witness ==
    /\ lastOp = "next"
    /\ stage = STAGE_POINT
    /\ Len(rectangle_points) = 4
    /\ pending_points = <<>>
    /\ center_point # None
    /\ SumAxis(rectangle_points, 1) % 4 = 3
    /\ Get(center_point)[1] = SumAxis(rectangle_points, 1) \div 4 + 1

\* C22: Back in the point stage moves to the rectangle stage with the pending
\* corners equal to the finalized corners in the same order and no center
\* point; in the rectangle stage it changes nothing; a Next directly after a
\* Back finalizes the same corners and sets the center to their rounded mean
\* again, whatever the center was before the Back.
C22_BackRestoresCorners ==
    /\ [][(lastOp' = "back" /\ stage = STAGE_POINT) =>
            /\ stage' = STAGE_RECTANGLE
            /\ pending_points' = rectangle_points
            /\ center_point' = None
            /\ rectangle_points' = rectangle_points]_vars
    /\ [][(lastOp' = "back" /\ stage = STAGE_RECTANGLE) =>
            UNCHANGED <<draftVars, histVars, drag_index, pixVars, shotVars,
                        memoVars, storeVars>>]_vars
    /\ [][(lastOp = "back" /\ lastOp' = "next" /\ Len(pending_points) = 4
              /\ pending_points = rectangle_points) =>
            /\ stage' = STAGE_POINT
            /\ rectangle_points' = rectangle_points
            /\ center_point' # None
            /\ \A axis \in 1..2 :
                   Abs(4 * Get(center_point')[axis]
                         - (rectangle_points[1][axis] + rectangle_points[2][axis]
                              + rectangle_points[3][axis] + rectangle_points[4][axis])) <= 2]_vars

\* Back has left the point stage: the four finalized corners are pending
\* again and the center point is gone.
C22_Witness ==
    /\ lastOp = "back"
    /\ stage = STAGE_RECTANGLE
    /\ Len(rectangle_points) = 4
    /\ pending_points = rectangle_points
    /\ center_point = None

\* C23: a corner drag is undoable as one step. A press that starts a drag
\* (four corners pending, a corner hit) pushes exactly one undo snapshot, the
\* pending corners, and does not change them; a move changes at most the
\* dragged corner and neither stack; a release changes only the drag marker
\* and the button state; an undo in the rectangle stage restores the snapshot
\* on top of the undo stack, which after start, moves and release is the value
\* before the drag started.
C23_DragIsOneUndoStep ==
    /\ [][(drag_index = None /\ drag_index' # None) =>
            /\ lastOp' = "press"
            /\ Len(pending_points) = 4
            /\ pending_points' = pending_points
            /\ undo_stack' = Append(undo_stack, pending_points)
            /\ UNCHANGED <<stage, rectangle_points, center_point, redo_stack>>]_vars
    /\ [][lastOp' = "move" =>
            /\ UNCHANGED <<undo_stack, redo_stack, drag_index, label_dragging>>
            /\ UNCHANGED <<stage, rectangle_points, center_point, desc_input>>
            /\ Len(pending_points') = Len(pending_points)
            /\ \A i \in DOMAIN pending_points :
                   pending_points'[i] # pending_points[i] => drag_index = Some(i - 1)]_vars
    /\ [][lastOp' \in {"release", "release_after_add"} =>
            /\ drag_index' = None
            /\ UNCHANGED <<pixVars, shotVars, draftVars, histVars, memoVars, storeVars>>]_vars
    /\ [][(lastOp' \in {"undo", "undo_after_add"} /\ stage = STAGE_RECTANGLE
              /\ undo_stack # <<>>) =>
            /\ pending_points' = undo_stack[Len(undo_stack)]
            /\ undo_stack' = SubSeq(undo_stack, 1, Len(undo_stack) - 1)]_vars

\* An undo after a finished drag: the four corners as they were clicked are
\* pending again, the list with the dragged corner is on the redo stack, and
\* the undo stack holds the four snapshots of the clicks.
C23_Witness ==
    /\ lastOp = "undo"
    /\ ~label_dragging
    /\ drag_index = None
    /\ Len(pending_points) = 4
    /\ \A i \in 1..4 : pending_points[i] = <<83333, 125000>>
    /\ Len(undo_stack) = 4
    /\ Len(redo_stack) = 1
    /\ \E i \in 1..4 : redo_stack[1][i] = <<0, 958333>>

\* C24: the center point is present exactly when the stage is the point
\* stage; in every point-stage state there are exactly 4 finalized corners and
\* no pending corners.
C24_CenterIffPointStage ==
    /\ center_point # None <=> stage = STAGE_POINT
    /\ stage = STAGE_POINT => Len(rectangle_points) = 4 /\ pending_points = <<>>

\* The point stage after a click has relocated the center point.
C24_Witness ==
    /\ lastOp = "press"
    /\ stage = STAGE_POINT
    /\ center_point = Some(<<833333, 875000>>)
    /\ Len(rectangle_points) = 4
    /\ pending_points = <<>>

\* C25: every save appends both a rectangle record and a point record or
\* neither, so the two logs always hold the same number of records. The
\* program violates this: the two appends fail independently of each other.
C25_LogsGrowTogether ==
    Len(rect_log) = Len(point_log)

C27_DragMarkerValid ==
    /\ drag_index # None =>
           /\ stage = STAGE_RECTANGLE
           /\ Get(drag_index) < Len(pending_points)
    /\ ~crashed

\* C28: captures keep their own files: a save that writes a screenshot file
\* uses a filename that no stored image and no record carries yet, so records
\* of different captures never share a filename and no image file of an
\* earlier capture is overwritten. The program violates this: the filename is
\* the clock reading in whole seconds, which two captures can share.
C28_CapturesKeepOwnFiles ==
    [][image_written' =>
        /\ \A f \in image_files : f.name # Get(current_screenshot_path')
        /\ \A i \in DOMAIN rect_log : rect_log[i].screenshot # Get(current_screenshot_path')
        /\ \A i \in DOMAIN point_log : point_log[i].screenshot # Get(current_screenshot_path')
        /\ \A f \in image_files : f \in image_files']_vars

\* C29: an upload whose image file name does not end in .png, .jpg or .jpeg,
\* or whose annotations or center-points file name does not end in .json, is
\* answered with status 400, and none of its files is stored. The program
\* violates the first part: the answer is status 500.
C29_BadUploadAnswered400 ==
    [][(http_request' # None /\ <<uploads, http_request, http_status>>' # <<uploads, http_request, http_status>>)
        => LET req == Get(http_request')
               tail3(n) == SubSeq(n, Len(n) - 3, Len(n))
               tail4(n) == SubSeq(n, Len(n) - 4, Len(n))
               image_ok == \/ Len(req.image) >= 4 /\ Lower(tail3(req.image)) \in
                                   { <<".", "p", "n", "g">>, <<".", "j", "p", "g">> }
                           \/ Len(req.image) >= 5 /\ Lower(tail4(req.image)) =
                                   <<".", "j", "p", "e", "g">>
               json_ok(n) == Len(n) >= 5 /\ Lower(tail4(n)) = <<".", "j", "s", "o", "n">>
           IN  ~(image_ok /\ json_ok(req.annotations) /\ json_ok(req.center_points))
                   => /\ http_status' = 400
                      /\ uploads' = uploads]_vars

====
